---- MODULE Spec2Model ----
(***************************************************************************)
(* live-node-list: a live view over the elements matched by a selector.    *)
(*                                                                         *)
(* Three instances are modelled:                                           *)
(*   "list"   a LiveNodeList over the raw element "box"                    *)
(*   "outer"  a LiveElement over the document root                         *)
(*   "inner"  a LiveElement constructed with "outer" as its parent         *)
(*                                                                         *)
(* The host facilities (selector evaluation, MutationObserver, the         *)
(* listener list of an EventTarget) are modelled by what they do:          *)
(*   dom[p]       the elements under p that match the selector of the      *)
(*                instance querying p, in document order                   *)
(*   observed[i]  the nodes instance i's MutationObserver is registered on *)
(*   pending[i]   the observer's record queue is non-empty (a callback is  *)
(*                queued)                                                  *)
(*   attached[t]  the event listener list of target t: a set of            *)
(*                <<type, callback, capture>>, so adding twice adds once   *)
(*                and removal matches on all three                         *)
(* Every method is a function from a state record to a state record, so    *)
(* that a handler that calls other methods is one action.                  *)
(***************************************************************************)
EXTENDS Integers, Sequences, FiniteSets, TLC

\* ---------------------------------------------------------------- universe

Null == "null"
Window == "window"

\* Elements that can match the selector of "list" (under "box")
Node == {"A", "B", "C"}
\* Elements that can match the selector of "outer" (under "root")
Panel == {"P1", "P2"}
\* Elements that can match the selector of "inner" (under a panel)
Leaf == {"X", "Y"}

Inst == {"list", "outer", "inner"}
ElemInst == {"outer", "inner"}

\* Nodes a query is evaluated against
Scope == {"box", "root"} \cup Panel
Target == Node \cup Panel \cup Leaf \cup {Window}

\* DOM event types and listener callbacks handed to the component
Event == {"click"}
Callback == {"f", "g"}
\* addEventListener's third argument: capture or not
Options == {FALSE, TRUE}

\* Longest eventListeners sequence explored per event
MaxReg == 2
\* Longest delegatedEvents sequence explored per event
MaxDefs == 2
\* Longest subscriber list explored for the update event
MaxSubs == 2
\* Most callbacks and subscribers registered at a time where every operation
\* is explored
MaxAll == 2
\* Longest argument lists diffNodeList is applied to on its own
MaxLen == 3

\* Lifecycle events (the keys of Observable.events)
LifecycleEvent ==
  {"update", "start", "pause", "resume",
   "eventListeners:add", "eventListeners:remove", "eventListeners:attach",
   "eventListeners:detach", "eventListeners:purge",
   "delegatedEventListeners:add", "delegatedEventListeners:remove",
   "delegatedEventListeners:attach", "delegatedEventListeners:detach",
   "delegatedEventListeners:purge"}

\* Subscribers of the update event:
\*   "chain"    the handler the constructor of a chained instance registers
\*   "bracket"  the README's handler: pause(); mutate the subtree; resume()
\*   "fn"       a handler that only looks at its arguments
\*   "probe"    a handler that reads the instance's matched state and the
\*              listeners on every target at the moment it is invoked
Subscriber == {"chain", "bracket", "fn", "probe"}

\* A value handed in as callback that is not a function
NonFunction == "'click'"
\* A value handed in as target that is no element, window or document
PlainObject == "{}"
\* An event name that is not a key of Observable.events
UnknownEvent == "ready"

\* The kinds of value handed to attachEventListeners / detachEventListeners
\* of a LiveNodeList (the two it accepts, and one it does not) ...
ContainerKind == {"Array", "NodeList", "Object"}
\* ... and of a LiveElement (an element, a truthy value that is none, null)
ItemKind == {"Element", "Object", "Null"}

VARIABLES
  dom,              \* [Scope -> Seq]: what the selector matches under each scope
  items,            \* LiveNodeList.items of "list"
  item,             \* [ElemInst -> element or Null]: LiveElement.item
  parent,           \* [Inst -> scope or Null]: Observable.parent
  eventListeners,   \* [Inst -> [keys -> Seq(Callback)]]
  delegatedEvents,  \* [Inst -> [keys -> Seq([target, callback, options])]]
  events,           \* [Inst -> [LifecycleEvent -> Seq(Subscriber)]]
  attached,         \* [Target -> SUBSET (Event \X Callback \X Options)]
  observed,         \* [Inst -> SUBSET Scope]
  pending,          \* [Inst -> BOOLEAN]
  callerPaused,     \* [Inst -> BOOLEAN]: the caller called pause() and not yet resume()
  removed,          \* [Inst -> SUBSET (Event \X Callback)]: removeEventListener
                    \* was called for the pair, or purgeEventListeners with the
                    \* pair registered, and addEventListener not since
  last              \* the operation that led here: what it was and what it did

vars == <<dom, items, item, parent, eventListeners, delegatedEvents, events,
          attached, observed, pending, callerPaused, removed, last>>

\* ------------------------------------------------------------------ helpers

Range(s) == {s[k] : k \in 1..Len(s)}

IsInjective(s) == \A a, b \in 1..Len(s) : s[a] = s[b] => a = b

\* Array.prototype.indexOf: the first index holding x, 0 when there is none
IndexOf(s, x) ==
  IF \E k \in 1..Len(s) : s[k] = x
  THEN CHOOSE k \in 1..Len(s) : s[k] = x /\ \A j \in 1..(k - 1) : s[j] # x
  ELSE 0

\* Array.prototype.splice(i, 1)
RemoveAt(s, k) == SubSeq(s, 1, k - 1) \o SubSeq(s, k + 1, Len(s))

InsertAt(s, k, x) == SubSeq(s, 1, k - 1) \o <<x>> \o SubSeq(s, k, Len(s))

\* The state the methods work on
Cur ==
  [dom |-> dom, items |-> items, item |-> item, parent |-> parent,
   eventListeners |-> eventListeners, delegatedEvents |-> delegatedEvents,
   events |-> events, attached |-> attached, observed |-> observed,
   pending |-> pending, callerPaused |-> callerPaused, log |-> <<>>,
   thrown |-> FALSE]

\* One entry of the record of what an operation did
Entry(k, i, a, b) == [k |-> k, i |-> i, a |-> a, b |-> b]

Log(s, k, i, a, b) == [s EXCEPT !.log = Append(@, Entry(k, i, a, b))]

\* A raised TypeError: the rest of the call stack is skipped
Throw(s, i) == [Log(s, "throw", i, <<>>, <<>>) EXCEPT !.thrown = TRUE]

\* An item of a LiveElement as the list of nodes it stands for
AsList(n) == IF n = Null THEN <<>> ELSE <<n>>

\* ------------------------------------------------------------ host: the DOM

\* parent.querySelectorAll(selector): a static list in document order
querySelectorAll(d, p) == d[p]

\* parent.querySelector(selector): the first match, or null
querySelector(d, p) == IF d[p] = <<>> THEN Null ELSE Head(d[p])

\* The elements insertable under a scope
Pool(sc) == IF sc = "root" THEN Panel ELSE IF sc = "box" THEN Node ELSE Leaf

\* An element is in at most one place
Placed(d) == UNION {Range(d[sc]) : sc \in Scope}

\* A childList change: insert an element that is nowhere, or remove one
Mutation ==
  [kind : {"insert", "remove"}, scope : Scope,
   node : Node \cup Panel \cup Leaf, pos : 1..4]

ValidMutation(d, m) ==
  /\ m.node \in Pool(m.scope)
  /\ IF m.kind = "insert"
     THEN m.node \notin Placed(d) /\ m.pos \in 1..(Len(d[m.scope]) + 1)
     ELSE m.pos = 1 /\ m.node \in Range(d[m.scope])

MutateDom(d, m) ==
  IF m.kind = "insert"
  THEN [d EXCEPT ![m.scope] = InsertAt(@, m.pos, m.node)]
  ELSE [d EXCEPT ![m.scope] = RemoveAt(@, IndexOf(@, m.node))]

\* observerConfig {childList: true, subtree: true}: a registration on t sees
\* the changes of t's own children and of every descendant's children
InSubtree(d, t, sc) ==
  \/ t = sc
  \/ t = "root" /\ (sc = "box" \/ sc \in Range(d["root"]))

\* A change of the document: the records are queued for every observer
\* registered on an ancestor-or-self of the changed node
ApplyMutation(s, m) ==
  [s EXCEPT
     !.dom = MutateDom(@, m),
     !.pending = [i \in Inst |->
        @[i] \/ \E t \in s.observed[i] : InSubtree(s.dom, t, m.scope)]]

\* EventTarget.addEventListener(type, callback, options)
AddListener(s, t, e, cb, opt) ==
  [s EXCEPT !.attached[t] = @ \cup {<<e, cb, opt>>}]

\* EventTarget.removeEventListener(type, callback): capture defaults to false
RemoveListener(s, t, e, cb) ==
  [s EXCEPT !.attached[t] = @ \ {<<e, cb, FALSE>>}]

\* ---------------------------------------------------------------- Observable

\* this.events[name].forEach(callback => callback())
Fire(s, i, name) == Log(s, name, i, <<>>, <<>>)

\* An argument check that lets every value pass
AnyValue(v) == TRUE

\* typeof callback === 'function'
IsFunction(callback) == callback \in Callback \cup Subscriber

\* target instanceof Element || target instanceof Window
\*   || target instanceof HTMLDocument
IsTarget(target) == target \in Target

\* An on that creates the list of an event it does not know, as
\* addEventListener does for eventListeners
onCreatesKey(s, i, event, callback) ==
  IF ~IsFunction(callback) THEN Throw(s, i)
  ELSE LET subs == IF event \in DOMAIN s.events[i] THEN s.events[i][event] ELSE <<>>
       IN [s EXCEPT !.events[i] =
             [e \in DOMAIN @ \cup {event} |->
                IF e = event THEN Append(subs, callback) ELSE @[e]]]

\* this.events[event].push(callback): a TypeError when events has no such key
on(s, i, event, callback) ==
  IF ~IsFunction(callback) THEN Throw(s, i)
  ELSE IF event \notin DOMAIN s.events[i] THEN Throw(s, i)
  ELSE [s EXCEPT !.events[i][event] = Append(@, callback)]

\* Array.prototype.lastIndexOf: the last index holding x, 0 when there is none
LastIndexOf(s, x) ==
  IF \E k \in 1..Len(s) : s[k] = x
  THEN CHOOSE k \in 1..Len(s) : s[k] = x /\ \A j \in (k + 1)..Len(s) : s[j] # x
  ELSE 0

\* An off that removes the subscription made last instead of the first one
offLast(s, i, event, callback) ==
  IF ~IsFunction(callback) THEN Throw(s, i)
  ELSE IF event \in DOMAIN s.events[i] /\ IndexOf(s.events[i][event], callback) > 0
  THEN [s EXCEPT !.events[i][event] = RemoveAt(@, LastIndexOf(@, callback))]
  ELSE s

\* if (event in this.events) { indexOf; if (i > -1) splice(i, 1) }
off(s, i, event, callback) ==
  IF ~IsFunction(callback) THEN Throw(s, i)
  ELSE IF event \in DOMAIN s.events[i] /\ IndexOf(s.events[i][event], callback) > 0
  THEN [s EXCEPT !.events[i][event] = RemoveAt(@, IndexOf(@, callback))]
  ELSE s

\* (('items' in this) && this.items.length > 0) || (('item' in this) && this.item)
HasMatch(s, i) ==
  IF i = "list" THEN Len(s.items) > 0 ELSE s.item[i] # Null

addDelegatedEventListener(s, i, target, event, callback, options) ==
  IF ~IsFunction(callback) \/ ~IsTarget(target) THEN Throw(s, i) ELSE
  LET defs == IF event \in DOMAIN s.delegatedEvents[i]
              THEN s.delegatedEvents[i][event] ELSE <<>>
      def == [target |-> target, callback |-> callback, options |-> options]
      s1 == [s EXCEPT !.delegatedEvents[i] =
               [e \in DOMAIN @ \cup {event} |->
                  IF e = event THEN Append(defs, def) ELSE @[e]]]
      s2 == IF HasMatch(s1, i)
            THEN AddListener(s1, target, event, callback, options)
            ELSE s1
  IN Fire(s2, i, "delegatedEventListeners:add")

removeDelegatedEventListener(s, i, target, event, callback) ==
  IF ~IsFunction(callback) \/ ~IsTarget(target) THEN Throw(s, i)
  ELSE IF event \notin DOMAIN s.delegatedEvents[i]
  THEN Throw(s, i)
  ELSE
    LET keep(def) == ~(def.target = target /\ def.callback = callback)
        s1 == [s EXCEPT !.delegatedEvents[i][event] = SelectSeq(@, keep)]
        s2 == RemoveListener(s1, target, event, callback)
    IN Fire(s2, i, "delegatedEventListeners:remove")

\* The listeners a list of definitions names for target t
DefsOn(e, defs, t) ==
  {<<e, defs[k].callback, defs[k].options>> :
     k \in {k \in 1..Len(defs) : defs[k].target = t}}

\* The listeners the delegated registry of i names for target t
DelegatedOn(s, i, t) ==
  UNION {DefsOn(e, s.delegatedEvents[i][e], t) : e \in DOMAIN s.delegatedEvents[i]}

attachDelegatedEventListeners(s, i) ==
  LET s1 == [s EXCEPT !.attached =
               [t \in Target |-> @[t] \cup DelegatedOn(s, i, t)]]
  IN Fire(s1, i, "delegatedEventListeners:attach")

detachDelegatedEventListeners(s, i) ==
  LET s1 == [s EXCEPT !.attached =
               [t \in Target |->
                  @[t] \ {<<l[1], l[2], FALSE>> : l \in DelegatedOn(s, i, t)}]]
  IN Fire(s1, i, "delegatedEventListeners:detach")

\* this.detachDelegatedEventListeners(); this.delegatedEventListeners = {}:
\* the assignment creates a property nothing reads, delegatedEvents is left
\* as it was
purgeDelegatedEventListeners(s, i) ==
  Fire(detachDelegatedEventListeners(s, i), i, "delegatedEventListeners:purge")

\* A pause that forgets to disconnect the observer
pauseNoDisconnect(s, i) == Fire(s, i, "pause")

\* this.observer.disconnect(): no node is observed any more and the record
\* queue is emptied, so a callback that was queued does not run
pause(s, i) ==
  LET s1 == [s EXCEPT !.observed[i] = {}, !.pending[i] = FALSE]
  IN Fire(s1, i, "pause")

RECURSIVE ListRefresh(_, _, _)
RECURSIVE ElemRefresh(_, _, _)

\* The resume of the first snapshot: it ends with this.refresh()
resumeForcesRefresh(s, i) ==
  LET s1 == IF s.parent[i] # Null
            THEN [s EXCEPT !.observed[i] = @ \cup {s.parent[i]}]
            ELSE s
      s2 == Fire(s1, i, "resume")
  IN IF i = "list" THEN ListRefresh(s2, i, [kind |-> "none"])
     ELSE ElemRefresh(s2, i, [kind |-> "none"])

\* A resume that announces the start of observation each time
resumeFiresStart(s, i) ==
  LET s1 == IF s.parent[i] # Null
            THEN [s EXCEPT !.observed[i] = @ \cup {s.parent[i]}]
            ELSE s
  IN Fire(Fire(s1, i, "resume"), i, "start")

resume(s, i) ==
  LET s1 == IF s.parent[i] # Null
            THEN [s EXCEPT !.observed[i] = @ \cup {s.parent[i]}]
            ELSE s
  IN Fire(s1, i, "resume")

\* this.observer = new MutationObserver(this.refresh); this.resume();
\* this.events.start.forEach(callback => callback())
registerDOMObserver(s, i) == Fire(resume(s, i), i, "start")

\* The caller's code calls pause() / resume(): the same methods, and the
\* record that it is the caller who holds the instance paused
CallerPause(s, i) == [pause(s, i) EXCEPT !.callerPaused[i] = TRUE]

CallerResume(s, i) == [resume(s, i) EXCEPT !.callerPaused[i] = FALSE]

\* ------------------------------------------------- direct-listener registry

\* The listeners the registry of i holds: every (event, callback) in it
Registered(s, i) ==
  UNION {{<<e, cb, FALSE>> : cb \in Range(s.eventListeners[i][e])} :
           e \in DOMAIN s.eventListeners[i]}

\* if (!(event in this.eventListeners)) this.eventListeners[event] = []
\* this.eventListeners[event].push(callback)
PushListener(s, i, event, callback) ==
  LET cbs == IF event \in DOMAIN s.eventListeners[i]
             THEN s.eventListeners[i][event] ELSE <<>>
  IN [s EXCEPT !.eventListeners[i] =
        [e \in DOMAIN @ \cup {event} |->
           IF e = event THEN Append(cbs, callback) ELSE @[e]]]

\* if (event in this.eventListeners) { indexOf; if (i > -1) splice(i, 1) }
SpliceListener(s, i, event, callback) ==
  IF event \in DOMAIN s.eventListeners[i]
     /\ IndexOf(s.eventListeners[i][event], callback) > 0
  THEN [s EXCEPT !.eventListeners[i][event] = RemoveAt(@, IndexOf(@, callback))]
  ELSE s

\* item.addEventListener(event, callback) for every registered pair and node
AttachAll(s, i, nodes) ==
  [s EXCEPT !.attached =
     [t \in Target |-> IF t \in Range(nodes) THEN @[t] \cup Registered(s, i) ELSE @[t]]]

\* item.removeEventListener(event, callback) for every registered pair and node
DetachAll(s, i, nodes) ==
  [s EXCEPT !.attached =
     [t \in Target |-> IF t \in Range(nodes) THEN @[t] \ Registered(s, i) ELSE @[t]]]

\* -------------------------------------------------------------- LiveNodeList

\* The diffNodeList of the entry-point snapshot: the test is not negated
diffNodeListInverted(a, b) == SelectSeq(a, LAMBDA x : x \in Range(b))

\* Array.prototype.filter.call(a, item => !Array.prototype.includes.call(b, item))
diffNodeList(a, b) == SelectSeq(a, LAMBDA x : x \notin Range(b))

ListAddEventListener(s, i, event, callback) ==
  LET s1 == PushListener(s, i, event, callback)
      s2 == [s1 EXCEPT !.attached =
               [t \in Target |->
                  IF t \in Range(s1.items) THEN @[t] \cup {<<event, callback, FALSE>>}
                  ELSE @[t]]]
  IN Fire(s2, i, "eventListeners:add")

ListRemoveEventListener(s, i, event, callback) ==
  LET s1 == SpliceListener(s, i, event, callback)
      s2 == [s1 EXCEPT !.attached =
               [t \in Target |->
                  IF t \in Range(s1.items) THEN @[t] \ {<<event, callback, FALSE>>}
                  ELSE @[t]]]
  IN Fire(s2, i, "eventListeners:remove")

ListAttachEventListeners(s, i, nodes) ==
  Log(AttachAll(s, i, nodes), "eventListeners:attach", i, nodes, <<>>)

ListDetachEventListeners(s, i, nodes) ==
  Log(DetachAll(s, i, nodes), "eventListeners:detach", i, nodes, <<>>)

\* ---------------------------------------------- LiveElement (first part)

ElemAddEventListener(s, i, event, callback) ==
  LET s1 == PushListener(s, i, event, callback)
      s2 == IF s1.item[i] # Null
            THEN AddListener(s1, s1.item[i], event, callback, FALSE)
            ELSE s1
  IN Fire(s2, i, "eventListeners:add")

ElemRemoveEventListener(s, i, event, callback) ==
  LET s1 == SpliceListener(s, i, event, callback)
      s2 == IF s1.item[i] # Null
            THEN RemoveListener(s1, s1.item[i], event, callback)
            ELSE s1
  IN Fire(s2, i, "eventListeners:remove")

\* if (!item) return
ElemAttachEventListeners(s, i, n) ==
  IF n = Null THEN s
  ELSE Log(AttachAll(s, i, <<n>>), "eventListeners:attach", i, <<n>>, <<>>)

ElemDetachEventListeners(s, i, n) ==
  IF n = Null THEN s
  ELSE Log(DetachAll(s, i, <<n>>), "eventListeners:detach", i, <<n>>, <<>>)

\* ------------------------------- attach, detach and purge as the caller's calls

\* attachEventListeners(items = this.items): LiveNodeList takes an Array or a
\* NodeList; LiveElement returns at once for a falsy item and takes an Element
attachEventListeners(s, i, arg) ==
  IF i = "list"
  THEN IF arg.kind \in {"Array", "NodeList"}
       THEN ListAttachEventListeners(s, i, arg.nodes)
       ELSE Throw(s, i)
  ELSE IF arg.kind = "Null" THEN s
  ELSE IF arg.kind = "Element"
       THEN ElemAttachEventListeners(s, i, Head(arg.nodes))
       ELSE Throw(s, i)

detachEventListeners(s, i, arg) ==
  IF i = "list"
  THEN IF arg.kind \in {"Array", "NodeList"}
       THEN ListDetachEventListeners(s, i, arg.nodes)
       ELSE Throw(s, i)
  ELSE IF arg.kind = "Null" THEN s
  ELSE IF arg.kind = "Element"
       THEN ElemDetachEventListeners(s, i, Head(arg.nodes))
       ELSE Throw(s, i)

\* The default argument: this.items, this.item
DefaultArg(s, i) ==
  IF i = "list" THEN [kind |-> "NodeList", nodes |-> s.items]
  ELSE IF s.item[i] = Null THEN [kind |-> "Null", nodes |-> <<>>]
  ELSE [kind |-> "Element", nodes |-> <<s.item[i]>>]

\* A purge that detaches and keeps the registry
purgeKeepsRegistry(s, i) ==
  Fire(detachEventListeners(s, i, DefaultArg(s, i)), i, "eventListeners:purge")

\* this.detachEventListeners(); this.eventListeners = {}
purgeEventListeners(s, i) ==
  LET s1 == detachEventListeners(s, i, DefaultArg(s, i))
      s2 == [s1 EXCEPT !.eventListeners[i] = <<>>]
  IN Fire(s2, i, "eventListeners:purge")

\* ------------------------------------------------ update dispatch, refresh

\* What the README's handler does between pause() and resume(): a change
\* inside the subtree the instance watches
NoMutation == [kind |-> "none"]

SubscriberMutates(s, i, m) ==
  IF m.kind # "none" /\ s.parent[i] # Null /\ ValidMutation(s.dom, m)
     /\ InSubtree(s.dom, s.parent[i], m.scope)
  THEN ApplyMutation(s, m)
  ELSE s

RECURSIVE Dispatch(_, _, _, _, _, _)
RECURSIVE RunSubscriber(_, _, _, _, _, _)

\* items.on('update', () => { items.pause(); ...changes...; items.resume() })
BracketHandler(s, i, m) ==
  CallerResume(SubscriberMutates(CallerPause(s, i), i, m), i)

\* parent.on('update', (newItem, oldItem) => { this.pause();
\*   this.parent = newItem; this.resume(); this.refresh() })
ChainHandler(s, child, newItem, m) ==
  LET s1 == pause(s, child)
      s2 == [s1 EXCEPT !.parent[child] = newItem]
      s3 == resume(s2, child)
  IN ElemRefresh(s3, child, m)

\* items.on('update', () => { ...reads items.items / item.item and the
\* listeners of the document's targets... })
ProbeHandler(s, i) ==
  Log(s, "seen", i, IF i = "list" THEN s.items ELSE AsList(s.item[i]),
      <<s.attached>>)

RunSubscriber(s, i, sub, a, b, m) ==
  CASE sub = "chain"   -> ChainHandler(s, "inner", a, m)
    [] sub = "bracket" -> BracketHandler(s, i, m)
    [] sub = "probe"   -> ProbeHandler(s, i)
    [] OTHER           -> s

\* subs.forEach(callback => callback(a, b)): a raised error ends the loop
Dispatch(s, i, subs, a, b, m) ==
  IF subs = <<>> \/ s.thrown THEN s
  ELSE Dispatch(RunSubscriber(s, i, Head(subs), a, b, m), i, Tail(subs), a, b, m)

\* A reconciliation that forgets the delegated listeners it detaches
ReconcileDelegatedForgetting(s, i) ==
  IF HasMatch(s, i)
  THEN attachDelegatedEventListeners(s, i)
  ELSE [detachDelegatedEventListeners(s, i) EXCEPT !.delegatedEvents[i] = <<>>]

\* if (items/item present) attachDelegatedEventListeners() else detach...()
ReconcileDelegated(s, i) ==
  IF HasMatch(s, i)
  THEN attachDelegatedEventListeners(s, i)
  ELSE detachDelegatedEventListeners(s, i)

\* The refresh of the first snapshot: no test for an empty diff
ListRefreshUnguarded(s, i, m) ==
  LET s0 == Log(s, "refresh", i, <<>>, <<>>)
      current == s.items
      selected == querySelectorAll(s.dom, s.parent[i])
      newItems == diffNodeList(selected, current)
      oldItems == diffNodeList(current, selected)
      s1 == ListDetachEventListeners(s0, i, oldItems)
      s2 == ListAttachEventListeners(s1, i, newItems)
      s3 == Log([s2 EXCEPT !.items = selected], "update", i, newItems, oldItems)
      s4 == Dispatch(s3, i, s3.events[i]["update"], newItems, oldItems, m)
  IN IF s4.thrown THEN s4 ELSE ReconcileDelegated(s4, i)

\* A refresh that invokes the update subscribers before it touches the
\* listeners and the stored matches
ListRefreshUpdateFirst(s, i, m) ==
  LET s0 == Log(s, "refresh", i, <<>>, <<>>)
  IN IF s.parent[i] = Null THEN Throw(s0, i)
     ELSE
       LET current == s.items
           selected == querySelectorAll(s.dom, s.parent[i])
           newItems == diffNodeList(selected, current)
           oldItems == diffNodeList(current, selected)
           s1 == Log(s0, "update", i, newItems, oldItems)
           s2 == Dispatch(s1, i, s1.events[i]["update"], newItems, oldItems, m)
           s3 == ListDetachEventListeners(s2, i, oldItems)
           s4 == IF Len(newItems) > 0 \/ Len(oldItems) > 0
                 THEN [ListAttachEventListeners(s3, i, newItems) EXCEPT !.items = selected]
                 ELSE s0
       IN IF s4.thrown THEN s4 ELSE ReconcileDelegated(s4, i)

ListRefresh(s, i, m) ==
  LET s0 == Log(s, "refresh", i, <<>>, <<>>)
  IN IF s.parent[i] = Null THEN Throw(s0, i)
     ELSE
       LET current == s.items
           selected == querySelectorAll(s.dom, s.parent[i])
           newItems == diffNodeList(selected, current)
           oldItems == diffNodeList(current, selected)
           s1 == ListDetachEventListeners(s0, i, oldItems)
           s2 == ListAttachEventListeners(s1, i, newItems)
           s3 == Log([s2 EXCEPT !.items = selected], "update", i, newItems, oldItems)
           s4 == IF Len(newItems) > 0 \/ Len(oldItems) > 0
                 THEN Dispatch(s3, i, s3.events[i]["update"], newItems, oldItems, m)
                 ELSE s0
       IN IF s4.thrown THEN s4 ELSE ReconcileDelegated(s4, i)

ElemRefresh(s, i, m) ==
  LET s0 == Log(s, "refresh", i, <<>>, <<>>)
  IN IF s.parent[i] = Null THEN Throw(s0, i)
     ELSE
       LET current == s.item[i]
           selected == querySelector(s.dom, s.parent[i])
           s1 == ElemDetachEventListeners(s0, i, current)
           s2 == ElemAttachEventListeners(s1, i, selected)
           s3 == Log([s2 EXCEPT !.item[i] = selected], "update", i,
                     AsList(selected), AsList(current))
           s4 == IF current # selected
                 THEN Dispatch(s3, i, s3.events[i]["update"], selected, current, m)
                 ELSE s0
       IN IF s4.thrown THEN s4 ELSE ReconcileDelegated(s4, i)

\* new MutationObserver(this.refresh): the queued callback runs, the record
\* queue having been emptied
ObserverCallback(s, i, m) ==
  LET s1 == [s EXCEPT !.pending[i] = FALSE]
  IN IF i = "list" THEN ListRefresh(s1, i, m) ELSE ElemRefresh(s1, i, m)

\* ------------------------------------------------------------- construction

\* The document orders of the subsets of S
Orders(S) ==
  {s \in UNION {[1..n -> S] : n \in 0..Cardinality(S)} : IsInjective(s)}

NoEvents == [e \in LifecycleEvent |-> <<>>]

NoListeners == [t \in Target |-> {}]

\* An instance of which no field is set yet
Unconstructed ==
  [dom |-> [sc \in Scope |-> <<>>], items |-> <<>>,
   item |-> [i \in ElemInst |-> Null], parent |-> [i \in Inst |-> Null],
   eventListeners |-> [i \in Inst |-> <<>>],
   delegatedEvents |-> [i \in Inst |-> <<>>],
   events |-> [i \in Inst |-> NoEvents], attached |-> NoListeners,
   observed |-> [i \in Inst |-> {}], pending |-> [i \in Inst |-> FALSE],
   callerPaused |-> [i \in Inst |-> FALSE], log |-> <<>>, thrown |-> FALSE]

\* The record of a construction: the lifecycle events registerDOMObserver()
\* fires at the end of the constructor
Started(i) == [op |-> "new", i |-> i, arg |-> <<>>, prev |-> <<>>,
               selected |-> <<>>, log |-> registerDOMObserver(Unconstructed, i).log,
               thrown |-> FALSE]

\* new LiveNodeList(selector, box): the initial match, then
\* registerDOMObserver() subscribes to box
InitList ==
  /\ \E d \in Orders(Node) :
       /\ dom = [sc \in Scope |-> IF sc = "box" THEN d ELSE <<>>]
       /\ items = querySelectorAll(dom, "box")
  /\ item = [i \in ElemInst |-> Null]
  /\ parent = [i \in Inst |-> IF i = "list" THEN "box" ELSE Null]
  /\ eventListeners = [i \in Inst |-> <<>>]
  /\ delegatedEvents = [i \in Inst |-> <<>>]
  /\ events = [i \in Inst |-> NoEvents]
  /\ attached = NoListeners
  /\ observed = [i \in Inst |-> IF i = "list" THEN {"box"} ELSE {}]
  /\ pending = [i \in Inst |-> FALSE]
  /\ callerPaused = [i \in Inst |-> FALSE]
  /\ removed = [i \in Inst |-> {}]
  /\ last = Started("list")

\* outer = new LiveElement(selector, root); inner = new LiveElement(selector,
\* outer): inner takes outer.item as parent and subscribes to outer's update
InitElement ==
  /\ \E r \in Orders(Panel), x \in Orders(Leaf), p \in Panel :
       dom = [sc \in Scope |->
                IF sc = "root" THEN r ELSE IF sc = p THEN x ELSE <<>>]
  /\ items = <<>>
  /\ item = [i \in ElemInst |->
               IF i = "outer" THEN querySelector(dom, "root")
               ELSE IF querySelector(dom, "root") = Null THEN Null
               ELSE querySelector(dom, querySelector(dom, "root"))]
  /\ parent = [i \in Inst |->
                 IF i = "outer" THEN "root"
                 ELSE IF i = "inner" THEN querySelector(dom, "root")
                 ELSE Null]
  /\ eventListeners = [i \in Inst |-> <<>>]
  /\ delegatedEvents = [i \in Inst |-> <<>>]
  /\ events = [i \in Inst |->
                 IF i = "outer" THEN [NoEvents EXCEPT !["update"] = <<"chain">>]
                 ELSE NoEvents]
  /\ attached = NoListeners
  /\ observed = [i \in Inst |-> IF i = "list" \/ parent[i] = Null THEN {}
                                ELSE {parent[i]}]
  /\ pending = [i \in Inst |-> FALSE]
  /\ callerPaused = [i \in Inst |-> FALSE]
  /\ removed = [i \in Inst |-> {}]
  /\ last = Started("inner")

\* ------------------------------------------------------------------ actions

\* The matched state of i as a list
Matched(s, i) == IF i = "list" THEN s.items ELSE AsList(s.item[i])

\* A fresh evaluation of i's selector against its parent, as a list
Fresh(s, i) ==
  IF s.parent[i] = Null THEN <<>>
  ELSE IF i = "list" THEN querySelectorAll(s.dom, s.parent[i])
  ELSE AsList(querySelector(s.dom, s.parent[i]))

\* The state after an operation, and the record of it
Commit(r, op, i, arg) ==
  /\ dom' = r.dom
  /\ items' = r.items
  /\ item' = r.item
  /\ parent' = r.parent
  /\ eventListeners' = r.eventListeners
  /\ delegatedEvents' = r.delegatedEvents
  /\ events' = r.events
  /\ attached' = r.attached
  /\ observed' = r.observed
  /\ pending' = r.pending
  /\ callerPaused' = r.callerPaused
  /\ last' = [op |-> op, i |-> i, arg |-> arg, prev |-> Matched(Cur, i),
              selected |-> Fresh(Cur, i), log |-> r.log, thrown |-> r.thrown]

refresh(s, i, m) == IF i = "list" THEN ListRefresh(s, i, m) ELSE ElemRefresh(s, i, m)

\* What a subscribed README handler may do when it runs
HandlerMutations(scopes) ==
  IF \E i \in Inst : "bracket" \in Range(events[i]["update"])
  THEN {m \in Mutation : m.scope \in scopes /\ ValidMutation(dom, m)}
  ELSE {NoMutation}

\* The application changes the document
Mutate(scopes) ==
  \E m \in Mutation :
    /\ m.scope \in scopes
    /\ ValidMutation(dom, m)
    /\ Commit(ApplyMutation(Cur, m), "mutate", "list", <<m.scope>>)
    /\ UNCHANGED removed

\* The host runs the observer's queued callback
Deliver(i, scopes) ==
  /\ pending[i]
  /\ \E m \in HandlerMutations(scopes) :
       Commit(ObserverCallback(Cur, i, m), "deliver", i, <<>>)
  /\ UNCHANGED removed

\* The caller calls refresh()
Refresh(i, scopes) ==
  /\ \E m \in HandlerMutations(scopes) : Commit(refresh(Cur, i, m), "refresh", i, <<>>)
  /\ UNCHANGED removed

AddEventListener(i, cbs) ==
  \E e \in Event, cb \in cbs :
    /\ e \in DOMAIN eventListeners[i] => Len(eventListeners[i][e]) < MaxReg
    /\ Commit(IF i = "list" THEN ListAddEventListener(Cur, i, e, cb)
              ELSE ElemAddEventListener(Cur, i, e, cb), "addEventListener", i, <<e, cb>>)
    /\ removed' = [removed EXCEPT ![i] = @ \ {<<e, cb>>}]

RemoveEventListener(i, cbs) ==
  \E e \in Event, cb \in cbs :
    /\ Commit(IF i = "list" THEN ListRemoveEventListener(Cur, i, e, cb)
              ELSE ElemRemoveEventListener(Cur, i, e, cb), "removeEventListener", i, <<e, cb>>)
    /\ removed' = [removed EXCEPT ![i] = @ \cup {<<e, cb>>}]

AddDelegatedEventListener(i, cbs) ==
  \E e \in Event, cb \in cbs, opt \in Options :
    /\ e \in DOMAIN delegatedEvents[i] => Len(delegatedEvents[i][e]) < MaxDefs
    /\ Commit(addDelegatedEventListener(Cur, i, Window, e, cb, opt),
              "addDelegatedEventListener", i, <<e, cb>>)
    /\ UNCHANGED removed

RemoveDelegatedEventListener(i, cbs) ==
  \E e \in Event, cb \in cbs :
    /\ Commit(removeDelegatedEventListener(Cur, i, Window, e, cb),
              "removeDelegatedEventListener", i, <<e, cb, delegatedEvents[i]>>)
    /\ UNCHANGED removed

Pause(i) ==
  /\ Commit(CallerPause(Cur, i), "pause", i, <<>>)
  /\ UNCHANGED removed

Resume(i) ==
  /\ Commit(CallerResume(Cur, i), "resume", i, <<>>)
  /\ UNCHANGED removed

\* The caller subscribes a handler to a lifecycle event, to a list of fewer
\* than most subscribers; the record keeps the subscriber lists of before
\* the call
On(i, names, subs, most) ==
  \E name \in names, sub \in subs :
    /\ name \in DOMAIN events[i] => Len(events[i][name]) < most
    /\ Commit(on(Cur, i, name, sub), "on", i, <<name, sub, events[i]>>)
    /\ UNCHANGED removed

\* When the call before this one was on(name, sub) on i and returned: the
\* subscriber lists of before that call
Undone(i, name, sub) ==
  IF last.op = "on" /\ ~last.thrown /\ last.i = i
     /\ last.arg[1] = name /\ last.arg[2] = sub
  THEN <<last.arg[3]>>
  ELSE <<>>

\* The caller unsubscribes a handler; the record keeps the subscriber lists
\* of before the call and, when it follows the matching on, of before that
Off(i, names, subs) ==
  \E name \in names, sub \in subs :
    /\ Commit(off(Cur, i, name, sub), "off", i,
              <<name, sub, events[i], Undone(i, name, sub)>>)
    /\ UNCHANGED removed

\* The argument of a call of attachEventListeners / detachEventListeners:
\* the matched nodes, as a value of the given kind
CallArg(i, kind) ==
  IF kind \in {"Array", "NodeList", "Element"}
  THEN [kind |-> kind, nodes |-> Matched(Cur, i)]
  ELSE [kind |-> kind, nodes |-> <<>>]

AttachEventListeners(i, kinds) ==
  \E kind \in kinds :
    /\ kind = "Element" => item[i] # Null
    /\ Commit(attachEventListeners(Cur, i, CallArg(i, kind)),
              "attachEventListeners", i, <<kind>>)
    /\ UNCHANGED removed

DetachEventListeners(i, kinds) ==
  \E kind \in kinds :
    /\ kind = "Element" => item[i] # Null
    /\ Commit(detachEventListeners(Cur, i, CallArg(i, kind)),
              "detachEventListeners", i, <<kind>>)
    /\ UNCHANGED removed

\* The record keeps what was registered before the call
PurgeEventListeners(i) ==
  /\ Commit(purgeEventListeners(Cur, i), "purgeEventListeners", i,
            <<Registered(Cur, i)>>)
  /\ removed' = [removed EXCEPT ![i] =
                   @ \cup {<<l[1], l[2]>> : l \in Registered(Cur, i)}]

AttachDelegatedEventListeners(i) ==
  /\ Commit(attachDelegatedEventListeners(Cur, i),
            "attachDelegatedEventListeners", i, <<>>)
  /\ UNCHANGED removed

DetachDelegatedEventListeners(i) ==
  /\ Commit(detachDelegatedEventListeners(Cur, i),
            "detachDelegatedEventListeners", i, <<>>)
  /\ UNCHANGED removed

PurgeDelegatedEventListeners(i) ==
  /\ Commit(purgeDelegatedEventListeners(Cur, i),
            "purgeDelegatedEventListeners", i, <<delegatedEvents[i]>>)
  /\ UNCHANGED removed

\* The calls with an argument the method tests for and refuses
InvalidCalls(s, i) ==
  {[method |-> "on", result |-> on(s, i, "update", NonFunction)],
   [method |-> "off", result |-> off(s, i, "update", NonFunction)],
   [method |-> "attachEventListeners",
    result |-> attachEventListeners(s, i, CallArg(i, "Object"))],
   [method |-> "detachEventListeners",
    result |-> detachEventListeners(s, i, CallArg(i, "Object"))]}
  \cup UNION {
   {[method |-> "addDelegatedEventListener",
     result |-> addDelegatedEventListener(s, i, Window, e, NonFunction, opt)],
    [method |-> "addDelegatedEventListener",
     result |-> addDelegatedEventListener(s, i, PlainObject, e, "f", opt)],
    [method |-> "removeDelegatedEventListener",
     result |-> removeDelegatedEventListener(s, i, Window, e, NonFunction)],
    [method |-> "removeDelegatedEventListener",
     result |-> removeDelegatedEventListener(s, i, PlainObject, e, "f")]}
   : e \in Event, opt \in Options}

InvalidCall(i) ==
  \E c \in InvalidCalls(Cur, i) :
    /\ Commit(c.result, "invalid", i, <<c.method>>)
    /\ UNCHANGED removed

\* --------------------------------------------------------- specifications

\* A LiveNodeList with direct listeners
NextDirect ==
  \/ Mutate({"box"})
  \/ Deliver("list", {"box"})
  \/ Refresh("list", {"box"})
  \/ AddEventListener("list", Callback)
  \/ RemoveEventListener("list", Callback)

Spec == InitList /\ [][NextDirect]_vars

\* A LiveNodeList with delegated listeners
NextDelegated ==
  \/ Mutate({"box"})
  \/ Deliver("list", {"box"})
  \/ Refresh("list", {"box"})
  \/ AddDelegatedEventListener("list", Callback)
  \/ RemoveDelegatedEventListener("list", Callback)

SpecDelegated == InitList /\ [][NextDelegated]_vars

\* A LiveNodeList that is paused and resumed, with update subscribers
NextPause ==
  \/ Mutate({"box"})
  \/ Deliver("list", {"box"})
  \/ Refresh("list", {"box"})
  \/ Pause("list")
  \/ Resume("list")
  \/ On("list", {"update"}, {"bracket", "fn"}, MaxSubs)
  \/ Off("list", {"update"}, {"bracket", "fn"})

SpecPause == InitList /\ [][NextPause]_vars

\* A LiveElement chained under a LiveElement, paused and resumed
NextChain ==
  \/ Mutate({"root"} \cup Panel)
  \/ Deliver("outer", {})
  \/ Deliver("inner", {})
  \/ Refresh("outer", {})
  \/ Refresh("inner", {})
  \/ Pause("inner")
  \/ Resume("inner")

SpecChain == InitElement /\ [][NextChain]_vars

\* A LiveElement chained under a LiveElement, with listeners on the inner one
NextElement ==
  \/ Mutate({"root"} \cup Panel)
  \/ Deliver("outer", {})
  \/ Deliver("inner", {})
  \/ Refresh("inner", {})
  \/ AddEventListener("inner", {"f"})
  \/ AddDelegatedEventListener("inner", {"g"})

SpecElement == InitElement /\ [][NextElement]_vars

\* Lifecycle events are subscribed to and unsubscribed from, an event name
\* the component does not know among them; a list of MaxSubs subscribers
\* still takes one more, so that one is added to every list explored
NextEvents ==
  \/ On("list", {"update", "start", UnknownEvent}, {"bracket", "fn"}, MaxSubs + 1)
  \/ Off("list", {"update", "start", UnknownEvent}, {"bracket", "fn"})

\* A LiveNodeList over a box in which nothing matches
InitEmptyList == InitList /\ dom["box"] = <<>>

SpecEvents == InitEmptyList /\ [][NextEvents]_vars

\* A LiveNodeList whose direct listeners are purged
NextPurge ==
  \/ Mutate({"box"})
  \/ Deliver("list", {"box"})
  \/ Refresh("list", {"box"})
  \/ AddEventListener("list", Callback)
  \/ PurgeEventListeners("list")

SpecPurge == InitList /\ [][NextPurge]_vars

\* A LiveNodeList whose delegated listeners are purged
NextPurgeDelegated ==
  \/ Mutate({"box"})
  \/ Deliver("list", {"box"})
  \/ Refresh("list", {"box"})
  \/ AddDelegatedEventListener("list", {"f"})
  \/ AttachDelegatedEventListeners("list")
  \/ PurgeDelegatedEventListeners("list")

SpecPurgeDelegated == InitList /\ [][NextPurgeDelegated]_vars

\* Either the LiveNodeList or the chained pair of LiveElements exists; the
\* document holds at most the elements of Few
Few == {"A", "P1", "X"}

InitFew == (InitList \/ InitElement) /\ Placed(dom) \subseteq Few

\* The instances that exist, the one the caller works with, and the scopes
\* the document changes in (for the chained pair: the matches of the outer
\* element, which re-point the inner one)
ListWorld == parent["list"] # Null

Existing == IF ListWorld THEN {"list"} ELSE {"outer", "inner"}

Called == IF ListWorld THEN "list" ELSE "inner"

Watched == IF ListWorld THEN {"box"} ELSE {"root"}

MutateFew == Mutate(Watched) /\ Placed(dom') \subseteq Few

\* The registered callbacks and subscribers of i, all registries together
RECURSIVE SumLen(_)
SumLen(f) ==
  IF DOMAIN f = {} THEN 0
  ELSE LET k == CHOOSE k \in DOMAIN f : TRUE
       IN Len(f[k]) + SumLen([j \in DOMAIN f \ {k} |-> f[j]])

Load(i) == SumLen(eventListeners[i]) + SumLen(delegatedEvents[i]) + SumLen(events[i])

\* Every operation is called, on the LiveNodeList or on the inner LiveElement
\* (whose pause by the caller is explored under SpecChain)
NextAll ==
  \/ MutateFew
  \/ \E i \in Existing : Deliver(i, {})
  \/ \E i \in Existing : Refresh(i, {})
  \/ ListWorld /\ Pause(Called)
  \/ ListWorld /\ Resume(Called)
  \/ Load(Called) < MaxAll /\ On(Called, {"update"}, {"fn"}, MaxSubs)
  \/ Off(Called, {"update"}, {"fn"})
  \/ Load(Called) < MaxAll /\ AddEventListener(Called, {"f"})
  \/ RemoveEventListener(Called, {"f"})
  \/ AttachEventListeners(Called, {DefaultArg(Cur, Called).kind})
  \/ DetachEventListeners(Called, {DefaultArg(Cur, Called).kind})
  \/ PurgeEventListeners(Called)
  \/ Load(Called) < MaxAll /\ AddDelegatedEventListener(Called, {"g"})
  \/ RemoveDelegatedEventListener(Called, {"g"})
  \/ AttachDelegatedEventListeners(Called)
  \/ DetachDelegatedEventListeners(Called)
  \/ PurgeDelegatedEventListeners(Called)

SpecAll == InitFew /\ [][NextAll]_vars

\* Operations are called with arguments they refuse, in between calls that
\* register listeners and subscribers
NextInvalid ==
  \/ MutateFew
  \/ \E i \in Existing : Deliver(i, {})
  \/ On(Called, {"update"}, {"fn"}, MaxSubs)
  \/ AddEventListener(Called, {"f"})
  \/ AddDelegatedEventListener(Called, {"g"})
  \/ InvalidCall(Called)

SpecInvalid == InitFew /\ [][NextInvalid]_vars

\* The lists of at most MaxLen nodes, a node possibly several times
Lists == UNION {[1..n -> Node] : n \in 0..MaxLen}

\* diffNodeList(a, b) is called on the instance just constructed; the record
\* keeps the arguments and the result
DiffNodeList ==
  /\ last.op = "new"
  /\ \E a \in Lists, b \in Lists :
       Commit(Cur, "diffNodeList", "list", <<a, b, diffNodeList(a, b)>>)
  /\ UNCHANGED removed

\* A LiveNodeList whose start event is subscribed to, and which is paused,
\* resumed and refreshed
NextStart ==
  \/ Mutate({"box"})
  \/ Deliver("list", {"box"})
  \/ Refresh("list", {"box"})
  \/ Pause("list")
  \/ Resume("list")
  \/ On("list", {"start"}, {"fn"}, MaxSubs)
  \/ Off("list", {"start"}, {"fn"})

SpecStart == InitList /\ [][NextStart]_vars

\* The LiveNodeList, or the inner LiveElement of the chained pair, with
\* direct and delegated listeners and with update subscribers that look at
\* the instance when they are invoked
\* (the document holds at most two elements that match the list's selector
\* and one per level of the chained pair)
InOrder == Few \cup {"B"}

InitOrder == (InitList \/ InitElement) /\ Placed(dom) \subseteq InOrder

NextOrder ==
  \/ Mutate(IF ListWorld THEN {"box"} ELSE {"root"} \cup Panel)
       /\ Placed(dom') \subseteq InOrder
  \/ \E i \in Existing : Deliver(i, {})
  \/ Refresh(Called, {})
  \/ On(Called, {"update"}, {"probe"}, MaxSubs)
  \/ AddEventListener(Called, {"f"})
  \/ AddDelegatedEventListener(Called, {"g"})

SpecOrder == InitOrder /\ [][NextOrder]_vars

\* A LiveNodeList that is left to its observer: the document changes, the
\* caller pauses and resumes, and the host delivers what is queued (the
\* MutationObserver callback is a microtask the host does run)
NextLive ==
  \/ Mutate({"box"})
  \/ Deliver("list", {"box"})
  \/ Pause("list")
  \/ Resume("list")

SpecLive == InitList /\ [][NextLive]_vars /\ WF_vars(Deliver("list", {"box"}))

\* refresh() is called at will, on the LiveNodeList or on either LiveElement
\* of the chained pair, with direct and delegated listeners registered
NextTwice ==
  \/ Mutate(IF ListWorld THEN {"box"} ELSE {"root"} \cup Panel)
       /\ Placed(dom') \subseteq InOrder
  \/ \E i \in Existing : Deliver(i, {})
  \/ \E i \in Existing : Refresh(i, {})
  \/ \E i \in Existing : AddDelegatedEventListener(i, {"g"})
  \/ AddEventListener(Called, {"f"})

SpecTwice == InitOrder /\ [][NextTwice]_vars

\* diffNodeList on its own and as refresh uses it
NextDiff ==
  \/ DiffNodeList
  \/ Mutate({"box"})
  \/ Deliver("list", {"box"})
  \/ Refresh("list", {"box"})

SpecDiff == InitList /\ [][NextDiff]_vars

\* ------------------------------------------------------------------ claims

\* The last operation was a refresh of i (called, or run by the observer)
\* and it returned
Refreshed(i) ==
  last.op \in {"refresh", "deliver"} /\ last.i = i /\ ~last.thrown

\* The update events the last operation fired on i, in order
Updates(i) == SelectSeq(last.log, LAMBDA en : en.k = "update" /\ en.i = i)

\* The targets that have the direct listener (e, cb) attached
AttachedTo(e, cb) == {t \in Target : <<e, cb, FALSE>> \in attached[t]}

\* The calls of refresh on i that a log records
RefreshesOf(log, i) == SelectSeq(log, LAMBDA en : en.k = "refresh" /\ en.i = i)

\* C1 (as claimed): whenever a refresh has just returned, the stored matched
\* state is the fresh evaluation of the selector against parent: the same
\* nodes in the same document order, also after a change that only reorders
\* matched nodes.
C1_FreshAfterRefresh ==
  \A i \in Inst : Refreshed(i) => Matched(Cur, i) = Fresh(Cur, i)

\* C2 (as claimed): in every state an operation returns to, each callback in
\* the eventListeners registry is attached to exactly the nodes of the
\* stored matched set.
C2_DirectListenerInvariant ==
  \A i \in Inst : \A e \in DOMAIN eventListeners[i] :
    \A cb \in Range(eventListeners[i][e]) :
      AttachedTo(e, cb) = Range(Matched(Cur, i))

\* C4: the entered and left sets a collection refresh computes from the
\* previous items and the new selection (those it hands to update; both
\* empty when it fires none) are disjoint, entered is part of selected, left
\* is part of items, and entered with the items that did not leave is
\* exactly selected.
C4_DiffComplete ==
  Refreshed("list") =>
    LET ups == Updates("list")
        entered == IF ups = <<>> THEN {} ELSE Range(ups[1].a)
        left == IF ups = <<>> THEN {} ELSE Range(ups[1].b)
    IN /\ entered \cap left = {}
       /\ entered \cup (Range(last.prev) \ left) = Range(last.selected)
       /\ entered \subseteq Range(last.selected)
       /\ left \subseteq Range(last.prev)

\* A refresh in which a node entered, a node left and a node stayed
C4_Witness ==
  /\ Refreshed("list")
  /\ last.prev = <<"A", "B">>
  /\ last.selected = <<"C", "B">>
  /\ Updates("list") # <<>>
  /\ Range(Updates("list")[1].a) = {"C"}
  /\ Range(Updates("list")[1].b) = {"A"}

\* C8: a collection refresh with a non-empty diff fires update exactly once
\* with (entered, left), entered being the newly matched nodes in the order
\* of the selection and left the no longer matched nodes in the order of the
\* previous items, and leaves items equal to the selection; a refresh with
\* an empty diff fires no update.
C8_UpdateEvent ==
  Refreshed("list") =>
    LET entered == SelectSeq(last.selected, LAMBDA x : x \notin Range(last.prev))
        left == SelectSeq(last.prev, LAMBDA x : x \notin Range(last.selected))
    IN IF entered # <<>> \/ left # <<>>
       THEN /\ Updates("list") = <<Entry("update", "list", entered, left)>>
            /\ items = last.selected
       ELSE Updates("list") = <<>>

\* items [A,B], A removed and C added: update([C],[A]) once, items [B,C]
C8_Witness ==
  /\ Refreshed("list")
  /\ last.prev = <<"A", "B">>
  /\ Updates("list") = <<Entry("update", "list", <<"C">>, <<"A">>)>>
  /\ items = <<"B", "C">>

\* C10 (as claimed): when addEventListener(event, cb) returns, cb is recorded
\* and attached to exactly the nodes of the matched set; when
\* removeEventListener(event, cb) returns, cb is attached to no matched
\* node; and a removed callback is not attached again to a matched node by a
\* later refresh.
C10_AddThenRemove ==
  \A i \in Inst :
    /\ (last.op = "addEventListener" /\ last.i = i) =>
         /\ last.arg[2] \in Range(eventListeners[i][last.arg[1]])
         /\ AttachedTo(last.arg[1], last.arg[2]) = Range(Matched(Cur, i))
    /\ \A l \in removed[i] :
         \A t \in Range(Matched(Cur, i)) : <<l[1], l[2], FALSE>> \notin attached[t]

\* C3 (as claimed): in every state an operation returns to, every triple
\* recorded in delegatedEvents is attached to its target if and only if the
\* stored matched set is non-empty.
C3_DelegatedInvariant ==
  \A i \in Inst : \A e \in DOMAIN delegatedEvents[i] :
    \A k \in 1..Len(delegatedEvents[i][e]) :
      LET def == delegatedEvents[i][e][k]
      IN <<e, def.callback, def.options>> \in attached[def.target]
           <=> HasMatch(Cur, i)

\* C5 (as claimed): while the caller holds an instance paused (pause() called,
\* resume() not yet), no operation other than the caller's own refresh() or
\* resume() of that instance runs its refresh.
C5_NoRefreshWhilePaused ==
  [][\A i \in Inst :
       (callerPaused[i] /\ ~(last'.op \in {"refresh", "resume"} /\ last'.i = i))
         => RefreshesOf(last'.log, i) = <<>>]_vars

C7_NoFeedback ==
  [][\A i \in Inst :
       (last'.op \in {"deliver", "refresh"} /\ last'.i = i) =>
         /\ Len(SelectSeq(last'.log, LAMBDA en : en.k = "update" /\ en.i = i)) <= 1
         /\ pending'[i] => (pending[i] /\ last'.op = "refresh")]_vars

\* A delivered refresh whose update subscriber changed the matched nodes
\* between pause() and resume(): one update, nothing queued
C7_Witness ==
  /\ last.op = "deliver" /\ last.i = "list" /\ ~last.thrown
  /\ \E k \in 1..Len(last.log) : last.log[k].k = "pause"
  /\ Len(Updates("list")) = 1
  /\ Range(items) # Range(dom["box"])
  /\ "box" \in observed["list"]
  /\ ~pending["list"]

\* What the last operation did to the direct listeners and the update
\* subscribers of i, in order
ReconcileLog(i) ==
  SelectSeq(last.log, LAMBDA en :
    en.i = i /\ en.k \in {"eventListeners:detach", "eventListeners:attach", "update"})

\* C9 (as claimed): a single-element refresh that selects the node it already
\* holds (or none, holding none) detaches nothing, attaches nothing and fires
\* no update; otherwise it detaches the direct listeners from the previous
\* item if there was one, attaches them to the selected node if there is
\* one, sets item to it and fires update once with (selected, previous). In
\* both cases the delegated listeners are attached iff item is present.
C9_ElementRefresh ==
  \A i \in ElemInst :
    Refreshed(i) =>
      /\ IF last.selected = last.prev
         THEN ReconcileLog(i) = <<>> /\ Matched(Cur, i) = last.prev
         ELSE /\ ReconcileLog(i) =
                   (IF last.prev = <<>> THEN <<>>
                    ELSE <<Entry("eventListeners:detach", i, last.prev, <<>>)>>)
                   \o (IF last.selected = <<>> THEN <<>>
                       ELSE <<Entry("eventListeners:attach", i, last.selected, <<>>)>>)
                   \o <<Entry("update", i, last.selected, last.prev)>>
              /\ Matched(Cur, i) = last.selected
      /\ \A e \in DOMAIN delegatedEvents[i] :
           \A k \in 1..Len(delegatedEvents[i][e]) :
             LET def == delegatedEvents[i][e][k]
             IN <<e, def.callback, def.options>> \in attached[def.target]
                  <=> item[i] # Null

\* ------------------------------------------------ claims C11 to C20

\* The last operation was off(name, sub), called right after on(name, sub)
\* had returned
RoundTrip(i) == last.op = "off" /\ last.i = i /\ last.arg[4] # <<>>

\* C11 (as claimed): for every lifecycle event, callback and prior content
\* of the subscriber list (the callback already in it, in any position,
\* included), on(event, cb) followed immediately by off(event, cb) leaves
\* the subscriber sequence of event identical to what it was before on, and
\* every other event's list untouched.
C11_OnOffRoundTrip ==
  \A i \in Inst : RoundTrip(i) => events[i] = last.arg[4][1]

\* C11 (amended): on(event, cb) followed immediately by off(event, cb)
\* leaves every other event's list untouched and the list of event with the
\* same callbacks the same number of times; their order is the one of
\* before on when cb was not in the list, and otherwise the first occurrence
\* of cb has moved to the end of the list.
C11_OnOffMovesFirstToEnd ==
  \A i \in Inst :
    RoundTrip(i) =>
      LET name == last.arg[1]
          cb == last.arg[2]
          before == last.arg[4][1]
      IN events[i] =
           [before EXCEPT ![name] =
              IF cb \in Range(@) THEN Append(RemoveAt(@, IndexOf(@, cb)), cb)
              ELSE @]

\* update had the subscribers [fn, bracket]; on(update, fn) and then
\* off(update, fn) have left [bracket, fn]
C11_Witness ==
  /\ RoundTrip("list")
  /\ last.arg[1] = "update" /\ last.arg[2] = "fn"
  /\ last.arg[4][1]["update"] = <<"fn", "bracket">>
  /\ events["list"]["update"] = <<"bracket", "fn">>

Fired(i, name) ==
  Len(SelectSeq(last.log, LAMBDA en : en.k = name /\ en.i = i))

\* C12 (as claimed): a refresh activates the delegated listeners (attaches
\* them and fires delegatedEventListeners:attach) exactly once when the
\* matched set went from empty to non-empty and not at all otherwise, and
\* deactivates them exactly once when it went from non-empty to empty and
\* not at all otherwise.
C12_OncePerTransition ==
  \A i \in Inst :
    Refreshed(i) =>
      LET was == last.prev # <<>>
          now == Matched(Cur, i) # <<>>
      IN /\ Fired(i, "delegatedEventListeners:attach")
              = (IF ~was /\ now THEN 1 ELSE 0)
         /\ Fired(i, "delegatedEventListeners:detach")
              = (IF was /\ ~now THEN 1 ELSE 0)

\* The listeners a delegated registry names for target t
NamedFor(registry, t) ==
  UNION {DefsOn(e, registry[e], t) : e \in DOMAIN registry}

\* C13 (as claimed): when purgeDelegatedEventListeners() returns, every
\* delegated listener recorded before the call is detached from its target
\* and the delegatedEvents registry is empty (so that nothing recorded
\* before the purge can be attached again later).
C13_PurgeDelegated ==
  \A i \in Inst :
    (last.op = "purgeDelegatedEventListeners" /\ last.i = i) =>
      /\ \A t \in Target : attached[t] \cap NamedFor(last.arg[1], t) = {}
      /\ \A e \in DOMAIN delegatedEvents[i] : delegatedEvents[i][e] = <<>>

\* C14: when purgeEventListeners() returns, none of the direct listeners
\* registered before the call is attached to a node of the matched set, the
\* eventListeners registry is empty and eventListeners:purge has been fired
\* once, as the last thing; and from then on no callback that was purged
\* (and not added again) is attached to a matched node, whatever enters the
\* matched set.
C14_PurgeEventListeners ==
  \A i \in Inst :
    /\ (last.op = "purgeEventListeners" /\ last.i = i) =>
         /\ ~last.thrown
         /\ DOMAIN eventListeners[i] = {}
         /\ \A t \in Range(Matched(Cur, i)) : attached[t] \cap last.arg[1] = {}
         /\ Fired(i, "eventListeners:purge") = 1
         /\ last.log[Len(last.log)] = Entry("eventListeners:purge", i, <<>>, <<>>)
    /\ \A l \in removed[i] :
         \A t \in Range(Matched(Cur, i)) : <<l[1], l[2], FALSE>> \notin attached[t]

\* Two callbacks were purged with two nodes matched, a node has entered the
\* matched set since and nothing is attached to any of them
C14_Witness ==
  /\ Refreshed("list")
  /\ Cardinality(removed["list"]) = 2
  /\ Len(last.prev) = 2 /\ Len(items) = 3
  /\ \A t \in Range(items) : attached[t] = {}

\* C15 (as claimed): whenever the matched node of the parent instance
\* changes (to another node or to none), the chained instance re-points its
\* parent to it and reconciles without raising: when the parent's refresh
\* returns, the child's parent is the parent's matched node, the child
\* observes that node only, and the child's matched state is the fresh
\* evaluation under it (none when the parent matches none).
C15_Composition ==
  (last.op \in {"refresh", "deliver"} /\ last.i = "outer" /\ Updates("outer") # <<>>) =>
    /\ ~last.thrown
    /\ parent["inner"] = item["outer"]
    /\ observed["inner"] = (IF item["outer"] = Null THEN {} ELSE {item["outer"]})
    /\ Matched(Cur, "inner") = Fresh(Cur, "inner")

\* C16: a call with an argument the operation tests for (on and off with a
\* callback that is not a function, addDelegatedEventListener and
\* removeDelegatedEventListener with such a callback or with a target that
\* is no element, window or document, attachEventListeners and
\* detachEventListeners with a value of a kind they do not take) raises an
\* error, fires no lifecycle event and leaves the registries, the matched
\* state, the attached listeners and the observation as they were.
C16_FailFast ==
  [][last'.op = "invalid" =>
       /\ last'.thrown
       /\ last'.log = <<Entry("throw", last'.i, <<>>, <<>>)>>
       /\ UNCHANGED <<dom, items, item, parent, eventListeners, delegatedEvents,
                      events, attached, observed, pending>>]_vars

\* addDelegatedEventListener was called with a refused argument on an
\* instance that matches a node and has listeners and a subscriber
C16_Witness ==
  /\ last.op = "invalid" /\ last.arg = <<"addDelegatedEventListener">>
  /\ last.thrown
  /\ HasMatch(Cur, last.i)
  /\ Registered(Cur, last.i) # {}
  /\ \E t \in Target : DelegatedOn(Cur, last.i, t) # {}
  /\ events[last.i]["update"] # <<>>

\* C18 (as claimed): eventListeners[event] holds each callback at most once,
\* and when removeEventListener(event, cb) returns cb is not in
\* eventListeners[event].
C18_RegistryUnique ==
  \A i \in Inst :
    /\ \A e \in DOMAIN eventListeners[i] : IsInjective(eventListeners[i][e])
    /\ (last.op = "removeEventListener" /\ last.i = i
          /\ last.arg[1] \in DOMAIN eventListeners[i]) =>
         last.arg[2] \notin Range(eventListeners[i][last.arg[1]])

\* C19 (as claimed): when removeDelegatedEventListener(target, event, cb)
\* returns, cb having been added before with whatever options, no triple
\* with that target and cb is left in delegatedEvents[event], the other
\* entries are as they were, and cb is not attached to target, neither as a
\* capturing listener nor as a non-capturing one.
C19_RemoveDelegated ==
  \A i \in Inst :
    (/\ last.op = "removeDelegatedEventListener" /\ last.i = i
     /\ last.arg[1] \in DOMAIN last.arg[3]
     /\ \E k \in 1..Len(last.arg[3][last.arg[1]]) :
          last.arg[3][last.arg[1]][k].callback = last.arg[2]) =>
      LET e == last.arg[1]
          cb == last.arg[2]
      IN /\ ~last.thrown
         /\ delegatedEvents[i] =
              [last.arg[3] EXCEPT ![e] = SelectSeq(@, LAMBDA def : def.callback # cb)]
         /\ \A opt \in Options : <<e, cb, opt>> \notin attached[Window]

\* The operations C20 lists as leaving the matched state alone
NotRefreshing ==
  {"on", "off", "pause", "addEventListener", "removeEventListener",
   "attachEventListeners", "detachEventListeners", "purgeEventListeners",
   "addDelegatedEventListener", "removeDelegatedEventListener",
   "attachDelegatedEventListeners", "detachDelegatedEventListeners",
   "purgeDelegatedEventListeners"}

\* C20: the stored matched state of an instance changes only in an
\* operation in which refresh of that instance runs; on, off, pause, the
\* direct-listener operations and the delegated-listener operations leave
\* items and item as they are; and a refresh (called, or run by the
\* observer) leaves the events, eventListeners and delegatedEvents
\* registries as they are.
C20_Frame ==
  [][/\ items' # items => RefreshesOf(last'.log, "list") # <<>>
     /\ \A i \in ElemInst : item'[i] # item[i] => RefreshesOf(last'.log, i) # <<>>
     /\ last'.op \in NotRefreshing => items' = items /\ item' = item
     /\ last'.op \in {"refresh", "deliver"} =>
          /\ events' = events
          /\ eventListeners' = eventListeners
          /\ delegatedEvents' = delegatedEvents]_vars

\* A refresh has emptied the matched set of an instance that has a direct
\* and a delegated listener registered
C20_Witness ==
  /\ Refreshed("list")
  /\ last.prev # <<>> /\ items = <<>>
  /\ Registered(Cur, "list") # {}
  /\ \E t \in Target : DelegatedOn(Cur, "list", t) # {}

\* ------------------------------------------------ claims C21 to C26

\* The elements of a that equal no element of b, in the order of a
RECURSIVE Without(_, _)
Without(a, b) ==
  IF a = <<>> THEN <<>>
  ELSE (IF \E k \in 1..Len(b) : b[k] = Head(a) THEN <<>> ELSE <<Head(a)>>)
         \o Without(Tail(a), b)

\* C23: diffNodeList(a, b) is the list of the elements of a that are
\* identical to no element of b, in the order of a, for all lists a and b
\* (so diffNodeList(a, a) is empty and diffNodeList(a, []) is a); and the
\* entered and left nodes a refresh hands to update are
\* diffNodeList(selected, items) and diffNodeList(items, selected).
C23_DiffNodeList ==
  /\ last.op = "diffNodeList" =>
       /\ last.arg[3] = Without(last.arg[1], last.arg[2])
       /\ last.arg[1] = last.arg[2] => last.arg[3] = <<>>
       /\ last.arg[2] = <<>> => last.arg[3] = last.arg[1]
  /\ (Refreshed("list") /\ Updates("list") # <<>>) =>
       /\ Updates("list")[1].a = Without(last.selected, last.prev)
       /\ Updates("list")[1].b = Without(last.prev, last.selected)

\* diffNodeList([A, B, A], [B]) has returned [A, A]
C23_Witness ==
  /\ last.op = "diffNodeList"
  /\ last.arg = <<(<<"A", "B", "A">>), (<<"B">>), (<<"A", "A">>)>>

\* C26: the mutation subscription of an instance is on no node or on
\* exactly one, its current parent; and a change of the document queues a
\* notification for the chained instance only when it is a change under the
\* node that is its parent at that time, so that after it has been
\* re-pointed a change under its former parent never runs its refresh.
C26_SubscriptionOnParent ==
  [][/\ \A i \in Inst :
          /\ observed[i] \subseteq {parent[i]} \ {Null}
          /\ observed'[i] \subseteq {parent'[i]} \ {Null}
     /\ (last'.op = "mutate" /\ pending'["inner"] /\ ~pending["inner"]) =>
          last'.arg[1] = parent["inner"]]_vars

\* The outer element has gone from P1 to P2 and the inner one with it: it
\* is subscribed on P2 only and nothing is queued for it
C26_Witness ==
  /\ last.op = "deliver" /\ last.i = "outer" /\ ~last.thrown
  /\ last.prev = <<"P1">>
  /\ item["outer"] = "P2"
  /\ parent["inner"] = "P2"
  /\ observed["inner"] = {"P2"}
  /\ ~pending["inner"]
  /\ dom["P1"] # <<>>

\* C25: the start lifecycle event is fired exactly once, by the
\* construction, when its subscriber list is still empty, and by no
\* operation after it; so no callback subscribed with on('start', cb) is
\* ever invoked.
C25_StartOnlyAtConstruction ==
  /\ last.op = "new" =>
       /\ Fired(last.i, "start") = 1
       /\ events[last.i]["start"] = <<>>
  /\ last.op # "new" => \A i \in Inst : Fired(i, "start") = 0

\* A callback is subscribed to start and the instance, having been paused,
\* has begun to observe again
C25_Witness ==
  /\ last.op = "resume" /\ last.i = "list"
  /\ events["list"]["start"] # <<>>
  /\ "box" \in observed["list"]
  /\ Fired("list", "resume") = 1

\* The positions of the log entries of kind k that instance i wrote
Idx(lg, k, i) == {n \in 1..Len(lg) : lg[n].k = k /\ lg[n].i = i}

\* The refresh recorded in last found entered or left nodes
Changing(r) ==
  IF r.i = "list"
  THEN diffNodeList(r.selected, r.prev) # <<>> \/ diffNodeList(r.prev, r.selected) # <<>>
  ELSE r.prev # r.selected

\* C24: in a refresh that finds a change, the direct listeners are detached
\* from the left nodes, then attached to the entered nodes, then the stored
\* matches become the new selection, then the update subscribers run: each
\* of them finds items/item equal to the new selection and the registered
\* direct listeners on exactly the selected nodes, and finds the delegated
\* listeners as they were before the refresh; the delegated listeners are
\* reconciled once, after the last subscriber.
C24_RefreshOrder ==
  [][(/\ last'.op \in {"refresh", "deliver"}
      /\ last'.i = Called
      /\ ~last'.thrown
      /\ Changing(last'))
     =>
     LET i == Called
         lg == last'.log
         prev == last'.prev
         sel == last'.selected
         left == IF i = "list" THEN diffNodeList(prev, sel) ELSE prev
         entered == IF i = "list" THEN diffNodeList(sel, prev) ELSE sel
         det == Idx(lg, "eventListeners:detach", i)
         att == Idx(lg, "eventListeners:attach", i)
         upd == Idx(lg, "update", i)
         seen == Idx(lg, "seen", i)
         del == Idx(lg, "delegatedEventListeners:attach", i)
                  \cup Idx(lg, "delegatedEventListeners:detach", i)
         reg == Registered(Cur, i)
     IN /\ Cardinality(det) = IF i = "list" \/ left # <<>> THEN 1 ELSE 0
        /\ Cardinality(att) = IF i = "list" \/ entered # <<>> THEN 1 ELSE 0
        /\ \A d \in det : lg[d].a = left
        /\ \A a \in att : lg[a].a = entered
        /\ \A d \in det, a \in att : d < a
        /\ Cardinality(upd) = 1
        /\ \A a \in det \cup att, u \in upd : a < u
        /\ Cardinality(seen) = Len(events[i]["update"])
        /\ \A u \in upd, p \in seen : u < p
        /\ \A p \in seen :
             /\ lg[p].a = sel
             /\ \A n \in Node \cup Leaf :
                  IF n \in Range(sel) THEN reg \subseteq lg[p].b[1][n]
                  ELSE reg \cap lg[p].b[1][n] = {}
             /\ lg[p].b[1][Window] = attached[Window]
        /\ Cardinality(del) = 1
        /\ \A p \in upd \cup seen, d \in del : p < d
        /\ sel = IF i = "list" THEN items' ELSE AsList(item'[i])
    ]_vars

\* A delivered refresh of the list in which nodes left and nodes entered,
\* with a direct and a delegated listener registered and two subscribers
C24_Witness ==
  /\ last.op = "deliver" /\ last.i = "list" /\ ~last.thrown
  /\ diffNodeList(last.prev, last.selected) # <<>>
  /\ diffNodeList(last.selected, last.prev) # <<>>
  /\ Fired("list", "seen") = 2
  /\ eventListeners["list"] # <<>>
  /\ delegatedEvents["list"] # <<>>
  /\ items = last.selected

\* The same for the inner element, whose match has gone
C24_WitnessElement ==
  /\ last.op = "deliver" /\ last.i = "inner" /\ ~last.thrown
  /\ last.prev # <<>> /\ last.selected = <<>>
  /\ Fired("inner", "seen") >= 1
  /\ eventListeners["inner"] # <<>>

\* The list is subscribed to its parent
Observing == "box" \in observed["list"]

Synchronised == Matched(Cur, "list") = Fresh(Cur, "list")

\* C21 (as claimed): the host delivering what is queued, once the document
\* stops changing and the list stays observing (never paused, or paused and
\* resumed), the stored matches eventually are, and stay, the fresh
\* evaluation of the selector, also for a change whose notification a
\* pause() found undelivered.
C21_EventuallySynchronised ==
  <>[](last.op # "mutate" /\ Observing) => <>[]Synchronised

\* C21 for a list that is never paused
C21_NeverPaused ==
  ([]Observing /\ <>[](last.op # "mutate")) => <>[]Synchronised

\* C21 for a list that is never paused, the order of the matches set aside
C21_NeverPausedSameNodes ==
  ([]Observing /\ <>[](last.op # "mutate"))
    => <>[](Range(Matched(Cur, "list")) = Range(Fresh(Cur, "list")))

\* C21 for a list that may be paused and resumed, the order set aside
C21_ResumedSameNodes ==
  <>[](last.op # "mutate" /\ Observing)
    => <>[](Range(Matched(Cur, "list")) = Range(Fresh(Cur, "list")))

\* The second of two refresh() calls on one instance left everything the
\* first call left, and fired no update
SecondRefreshIdle ==
  /\ items' = items
  /\ item' = item
  /\ eventListeners' = eventListeners
  /\ delegatedEvents' = delegatedEvents
  /\ events' = events
  /\ attached' = attached
  /\ \A n \in 1..Len(last'.log) : last'.log[n].k # "update"

\* C22 (as claimed): a refresh() called right after a refresh() of the same
\* instance, the document not having changed in between, leaves items/item,
\* the three registries and the listeners of every node and target as the
\* first call left them, and fires no update.
C22_RefreshIdempotent ==
  [][(last.op = "refresh" /\ last'.op = "refresh" /\ last'.i = last.i)
       => SecondRefreshIdle]_vars

\* C22 for a first call that returned, no error having been raised in it
C22_IdempotentAfterReturn ==
  [][(last.op = "refresh" /\ last'.op = "refresh" /\ last'.i = last.i
      /\ ~last.thrown)
       => SecondRefreshIdle]_vars

====
